---------------------------- MODULE Spec2Model ----------------------------
(***************************************************************************)
(* A model of the FractionDataType value type of fraction_data_type.py.    *)
(*                                                                         *)
(* Python values are records [kind, num, den, msg]:                        *)
(*   kind = "int"       the integer num                                    *)
(*   kind = "float"     the float num/2 (a dyadic value, den = 2)          *)
(*   kind = "Fraction"  a FractionDataType object with fields num, den     *)
(*   kind = "NotImplemented" / "None"   the two singletons                 *)
(*   kind = "ValueError" / "TypeError" / "ZeroDivisionError"               *)
(*                      a raised exception, msg its message                *)
(* An operator that models a method returns the value the method returns   *)
(* or the exception it raises.                                             *)
(***************************************************************************)
EXTENDS Integers, Sequences, FiniteSets, TLC

\* ------------------------------------------------------------------ bounds
\* Largest magnitude of an integer argument and of a field of a stored Fraction.
MaxVal == 5
\* Largest magnitude of an exponent passed to **.
MaxExp == 3

\* ---------------------------------------------------------- Python values
Val(k, n, d, m) == [kind |-> k, num |-> n, den |-> d, msg |-> m]

PyInt(n) == Val("int", n, 1, "")

PyFloat(halves) == Val("float", halves, 2, "")

Frac(n, d) == Val("Fraction", n, d, "")

NotImplemented == Val("NotImplemented", 0, 0, "")

None == Val("None", 0, 0, "")

ValueError(m) == Val("ValueError", 0, 0, m)

TypeError(m) == Val("TypeError", 0, 0, m)

ZeroDivisionError == Val("ZeroDivisionError", 0, 0, "integer division or modulo by zero")

IsError(v) == v.kind \in {"ValueError", "TypeError", "ZeroDivisionError"}

\* isinstance(v, (int, float))
IsNumber(v) == v.kind \in {"int", "float"}

\* ------------------------------------------------------- Python built-ins
\* abs() of an int
Abs(n) == IF n < 0 THEN -n ELSE n

\* math.gcd of two non-negative ints (gcd(0, 0) = 0)
RECURSIVE gcd(_, _)
gcd(a, b) == IF b = 0 THEN a ELSE gcd(b, a % b)

\* A faulty variant of PyFloorDiv: the quotient truncated toward zero.
PyFloorDiv_Truncating(a, b) ==
    IF (a < 0) = (b < 0) THEN Abs(a) \div Abs(b) ELSE -(Abs(a) \div Abs(b))

\* a // b of two ints, b # 0: the floor of the quotient, whatever the signs
PyFloorDiv(a, b) == IF b > 0 THEN a \div b ELSE (-a) \div (-b)

\* The expression a // b of two ints as a value: ZeroDivisionError when b is 0.
FloorDivInts(a, b) == IF b = 0 THEN ZeroDivisionError ELSE PyInt(PyFloorDiv(a, b))

\* a ** n of an int a and an int n >= 0 (0 ** 0 = 1)
RECURSIVE IntPow(_, _)
IntPow(a, n) == IF n = 0 THEN 1 ELSE a * IntPow(a, n - 1)

\* float.is_integer()
is_integer(v) == v.num % 2 = 0

\* int(v) of an int or a float: truncation toward zero
int(v) ==
    IF v.kind = "float"
    THEN (IF v.num < 0 THEN -((-v.num) \div 2) ELSE v.num \div 2)
    ELSE v.num

\* A faulty variant of EqZero: the test left out.
EqZero_Never(v) == FALSE

\* v == 0 of an int or a float
EqZero(v) == v.num = 0

\* ------------------------------------------------ FractionDataType.__init__
\* Lines 22-23: an integral float becomes an int.
Integral(v) == IF v.kind = "float" /\ is_integer(v) THEN PyInt(int(v)) ELSE v

\* A faulty variant of NormalizeSign: the sign dropped from the denominator
\* without being moved to the numerator.
NormalizeSign_DenOnly(num, den) == IF den < 0 THEN <<num, -den>> ELSE <<num, den>>

\* Lines 33-34: the pair with a positive denominator.
NormalizeSign(num, den) == IF den < 0 THEN <<-num, -den>> ELSE <<num, den>>

\* A faulty variant of Reduce: only the numerator divided by the gcd.
Reduce_NumOnly(num, den) ==
    LET g == gcd(Abs(num), Abs(den))
    IN  IF g = 0 THEN ZeroDivisionError
        ELSE Frac(PyFloorDiv(num, g), den)

\* Lines 37-39: both fields divided by their gcd.
Reduce(num, den) ==
    LET g == gcd(Abs(num), Abs(den))
    IN  IF g = 0 THEN ZeroDivisionError
        ELSE Frac(PyFloorDiv(num, g), PyFloorDiv(den, g))

FractionDataType(num, den) ==
    LET num1 == Integral(num)
        den1 == Integral(den)
    IN  IF EqZero(den1) THEN ValueError("Denominator cannot be zero")
        ELSE LET both == IsNumber(num1) /\ IsNumber(den1)
                 num2 == IF both THEN int(num1) ELSE num1.num
                 den2 == IF both THEN int(den1) ELSE den1.num
                 nd   == NormalizeSign(num2, den2)
             IN  Reduce(nd[1], nd[2])

\* The default argument den = 1.
FractionDataType1(num) == FractionDataType(num, PyInt(1))

\* other = FractionDataType(other, 1) if isinstance(other, int)
Coerce(other) == IF other.kind = "int" THEN FractionDataType(other, PyInt(1)) ELSE other


\* --------------------------------------------------- operator dispatch
\* A binary operator whose methods all return NotImplemented raises TypeError.
Dispatch(r) == IF r = NotImplemented THEN TypeError("unsupported operand type(s)") ELSE r

\* ------------------------------------------------------------ arithmetic
\* A faulty variant of __add__: the numerators added without cross-multiplying.
Fraction__add__NoCross(self, other) ==
    LET o == Coerce(other)
    IN  IF o.kind # "Fraction" THEN NotImplemented
        ELSE FractionDataType(PyInt(self.num + o.num), PyInt(self.den * o.den))

Fraction__add__(self, other) ==
    LET o == Coerce(other)
    IN  IF o.kind # "Fraction" THEN NotImplemented
        ELSE FractionDataType(PyInt(self.num * o.den + o.num * self.den),
                              PyInt(self.den * o.den))

Fraction__radd__(self, other) == Fraction__add__(self, other)

Fraction__sub__(self, other) ==
    LET o == Coerce(other)
    IN  IF o.kind # "Fraction" THEN NotImplemented
        ELSE FractionDataType(PyInt(self.num * o.den - o.num * self.den),
                              PyInt(self.den * o.den))

\* A faulty variant of __rsub__: self - other instead of other - self.
Fraction__rsub__Swapped(self, other) ==
    LET o == Coerce(other)
    IN  IF o.kind = "Fraction" THEN Fraction__sub__(self, o) ELSE NotImplemented

\* other.__sub__(self): of a Fraction after the coercion, of a float otherwise
\* (float.__sub__ knows no Fraction and returns NotImplemented).
Fraction__rsub__(self, other) ==
    LET o == Coerce(other)
    IN  IF o.kind = "Fraction" THEN Fraction__sub__(o, self) ELSE NotImplemented

Fraction__mul__(self, other) ==
    LET o == Coerce(other)
    IN  IF o.kind # "Fraction" THEN NotImplemented
        ELSE FractionDataType(PyInt(self.num * o.num), PyInt(self.den * o.den))

Fraction__rmul__(self, other) == Fraction__mul__(self, other)

\* A faulty variant of __truediv__: the divisor not inverted.
Fraction__truediv__NoFlip(self, other) ==
    LET o == Coerce(other)
    IN  IF o.kind # "Fraction" THEN NotImplemented
        ELSE IF o.num = 0 THEN ValueError("Cannot divide by zero")
        ELSE FractionDataType(PyInt(self.num * o.num), PyInt(self.den * o.den))

Fraction__truediv__(self, other) ==
    LET o == Coerce(other)
    IN  IF o.kind # "Fraction" THEN NotImplemented
        ELSE IF o.num = 0 THEN ValueError("Cannot divide by zero")
        ELSE FractionDataType(PyInt(self.num * o.den), PyInt(self.den * o.num))

Fraction__rtruediv__(self, other) ==
    LET o == Coerce(other)
    IN  IF o.kind = "Fraction" THEN Fraction__truediv__(o, self) ELSE NotImplemented

\* A faulty variant of __floordiv__: the zero test made on self instead of other.
Fraction__floordiv__TestsSelf(self, other) ==
    LET o == Coerce(other)
    IN  IF o.kind # "Fraction" THEN NotImplemented
        ELSE IF self.num = 0 THEN ValueError("Cannot divide by zero")
        ELSE FloorDivInts(self.num * o.den, self.den * o.num)

Fraction__floordiv__(self, other) ==
    LET o == Coerce(other)
    IN  IF o.kind # "Fraction" THEN NotImplemented
        ELSE IF o.num = 0 THEN ValueError("Cannot divide by zero")
        ELSE FloorDivInts(self.num * o.den, self.den * o.num)

\* The expressions x + y, x - y, x * y, x / y, x // y with a Fraction on one side:
\* the left operand's method when it is a Fraction, the right operand's reflected
\* method when the left operand is an int or a float.
PyAdd(x, y) ==
    IF x.kind = "Fraction" THEN Dispatch(Fraction__add__(x, y))
    ELSE Dispatch(Fraction__radd__(y, x))

PySub(x, y) ==
    IF x.kind = "Fraction" THEN Dispatch(Fraction__sub__(x, y))
    ELSE Dispatch(Fraction__rsub__(y, x))

PyMul(x, y) ==
    IF x.kind = "Fraction" THEN Dispatch(Fraction__mul__(x, y))
    ELSE Dispatch(Fraction__rmul__(y, x))

PyTrueDiv(x, y) ==
    IF x.kind = "Fraction" THEN Dispatch(Fraction__truediv__(x, y))
    ELSE Dispatch(Fraction__rtruediv__(y, x))

PyFloorDivOp(x, y) == Dispatch(Fraction__floordiv__(x, y))

\* A faulty variant of __mod__: the quotient truncated toward zero.
Fraction__mod__Truncating(self, other) ==
    LET o == Coerce(other)
    IN  IF o.kind # "Fraction" THEN NotImplemented
        ELSE IF o.num = 0 THEN ValueError("Cannot divide by zero")
        ELSE LET quotient == PyInt(PyFloorDiv_Truncating(self.num * o.den, self.den * o.num))
             IN  PySub(self, PyMul(o, quotient))

\* A faulty variant of __mod__: the quotient subtracted without the factor other.
Fraction__mod__NoFactor(self, other) ==
    LET o == Coerce(other)
    IN  IF o.kind # "Fraction" THEN NotImplemented
        ELSE LET quotient == PyFloorDivOp(self, o)
             IN  IF IsError(quotient) THEN quotient
                 ELSE PySub(self, quotient)

Fraction__mod__(self, other) ==
    LET o == Coerce(other)
    IN  IF o.kind # "Fraction" THEN NotImplemented
        ELSE LET quotient == PyFloorDivOp(self, o)
             IN  IF IsError(quotient) THEN quotient
                 ELSE PySub(self, PyMul(o, quotient))

PyMod(x, y) == Dispatch(Fraction__mod__(x, y))

\* A faulty variant of __pow__: a negative exponent that does not invert.
Fraction__pow__NoInvert(self, exponent) ==
    IF exponent.kind # "int" THEN TypeError("Exponent must be an integer")
    ELSE IF exponent.num < 0
         THEN FractionDataType(PyInt(IntPow(self.num, -exponent.num)),
                               PyInt(IntPow(self.den, -exponent.num)))
         ELSE FractionDataType(PyInt(IntPow(self.num, exponent.num)),
                               PyInt(IntPow(self.den, exponent.num)))

Fraction__pow__(self, exponent) ==
    IF exponent.kind # "int" THEN TypeError("Exponent must be an integer")
    ELSE IF exponent.num < 0
         THEN FractionDataType(PyInt(IntPow(self.den, -exponent.num)),
                               PyInt(IntPow(self.num, -exponent.num)))
         ELSE FractionDataType(PyInt(IntPow(self.num, exponent.num)),
                               PyInt(IntPow(self.den, exponent.num)))

Fraction__neg__(self) == FractionDataType(PyInt(-self.num), PyInt(self.den))

Fraction__pos__(self) == FractionDataType(PyInt(self.num), PyInt(self.den))

Fraction__abs__(self) == FractionDataType(PyInt(Abs(self.num)), PyInt(self.den))

\* ----------------------------------------------------------- conversions
Fraction__int__(self) == FloorDivInts(self.num, self.den)

\* -------------------------------------------------------------- utilities
\* A faulty variant of simplify: the denominator left out.
simplify_DropsDen(self) == FractionDataType(PyInt(self.num), PyInt(1))

simplify(self) == FractionDataType(PyInt(self.num), PyInt(self.den))

\* A faulty variant of reciprocal: the sign of the numerator lost.
reciprocal_LosesSign(self) ==
    IF self.num = 0 THEN ValueError("Cannot take reciprocal of zero")
    ELSE FractionDataType(PyInt(self.den), PyInt(Abs(self.num)))

reciprocal(self) ==
    IF self.num = 0 THEN ValueError("Cannot take reciprocal of zero")
    ELSE FractionDataType(PyInt(self.den), PyInt(self.num))

\* A faulty variant of from_mixed: the whole part not scaled by den.
from_mixed_NoScale(whole, num, den) ==
    FractionDataType(PyInt(whole.num + num.num), den)

from_mixed(whole, num, den) ==
    FractionDataType(PyInt(whole.num * den.num + num.num), den)


\* ------------------------------------------------------------ comparisons
\* True and False
PyBool(b) == Val("bool", IF b THEN 1 ELSE 0, 1, "")

Fraction__eq__(self, other) ==
    LET o == Coerce(other)
    IN  IF o.kind # "Fraction" THEN NotImplemented
        ELSE PyBool(self.num = o.num /\ self.den = o.den)

Fraction__ne__(self, other) ==
    LET result == Fraction__eq__(self, other)
    IN  IF result = NotImplemented THEN result
        ELSE PyBool(result = PyBool(FALSE))

\* A faulty variant of __lt__: the two sides of the comparison exchanged.
Fraction__lt__Exchanged(self, other) ==
    LET o == Coerce(other)
    IN  IF o.kind # "Fraction" THEN NotImplemented
        ELSE PyBool(o.num * self.den < self.num * o.den)

Fraction__lt__(self, other) ==
    LET o == Coerce(other)
    IN  IF o.kind # "Fraction" THEN NotImplemented
        ELSE PyBool(self.num * o.den < o.num * self.den)

Fraction__le__(self, other) ==
    LET o == Coerce(other)
    IN  IF o.kind # "Fraction" THEN NotImplemented
        ELSE PyBool(self.num * o.den <= o.num * self.den)

Fraction__gt__(self, other) ==
    LET o == Coerce(other)
    IN  IF o.kind # "Fraction" THEN NotImplemented
        ELSE PyBool(self.num * o.den > o.num * self.den)

\* A faulty variant of __ge__: equal values are not >=.
Fraction__ge__Strict(self, other) ==
    LET o == Coerce(other)
    IN  IF o.kind # "Fraction" THEN NotImplemented
        ELSE PyBool(self.num * o.den > o.num * self.den)

Fraction__ge__(self, other) ==
    LET o == Coerce(other)
    IN  IF o.kind # "Fraction" THEN NotImplemented
        ELSE PyBool(self.num * o.den >= o.num * self.den)

\* The expression x == y with a Fraction on one side: the Fraction's __eq__
\* (reflected when the left operand is an int or a float); when it returns
\* NotImplemented the operands are compared by identity, and are not the same.
PyEq(x, y) ==
    LET r == IF x.kind = "Fraction" THEN Fraction__eq__(x, y) ELSE Fraction__eq__(y, x)
    IN  IF r = NotImplemented THEN PyBool(FALSE) ELSE r

\* The expression x != y with a Fraction on one side: when __ne__ returns
\* NotImplemented the operands are compared by identity, and are not the same.
PyNe(x, y) ==
    LET r == IF x.kind = "Fraction" THEN Fraction__ne__(x, y) ELSE Fraction__ne__(y, x)
    IN  IF r = NotImplemented THEN PyBool(TRUE) ELSE r

\* An ordering comparison whose methods all return NotImplemented raises TypeError.
DispatchCompare(r) ==
    IF r = NotImplemented THEN TypeError("not supported between instances") ELSE r

\* The expressions x < y, x <= y, x > y, x >= y with a Fraction on one side:
\* the left operand's method when it is a Fraction, the right operand's
\* mirrored method when the left operand is an int or a float.
PyLt(x, y) ==
    IF x.kind = "Fraction" THEN DispatchCompare(Fraction__lt__(x, y))
    ELSE DispatchCompare(Fraction__gt__(y, x))

PyLe(x, y) ==
    IF x.kind = "Fraction" THEN DispatchCompare(Fraction__le__(x, y))
    ELSE DispatchCompare(Fraction__ge__(y, x))

PyGt(x, y) ==
    IF x.kind = "Fraction" THEN DispatchCompare(Fraction__gt__(x, y))
    ELSE DispatchCompare(Fraction__lt__(y, x))

PyGe(x, y) ==
    IF x.kind = "Fraction" THEN DispatchCompare(Fraction__ge__(x, y))
    ELSE DispatchCompare(Fraction__le__(y, x))

\* ------------------------------------------------------------------- hash
\* hash((num, den)): the hash of a tuple is a function of the tuple, which
\* stands for it here.
HashOfPair(n, d) == Val("hash", n, d, "")

\* A faulty variant of __hash__: the denominator left out of the key.
Fraction__hash__NumOnly(self) == HashOfPair(self.num, 0)

Fraction__hash__(self) == HashOfPair(self.num, self.den)

\* ---------------------------------------------------------- mixed numbers
\* The tuple (whole, num, den)
Tuple3(whole, num, den) ==
    [kind |-> "tuple", num |-> num, den |-> den, msg |-> "", whole |-> whole]

\* a % b of two ints, b > 0
PyModInts(a, b) == a - b * PyFloorDiv(a, b)

\* A faulty variant of as_mixed_number: the remainder of num, not of |num|.
as_mixed_number_RemainderOfNum(self) ==
    Tuple3(PyFloorDiv(self.num, self.den), PyModInts(self.num, self.den), self.den)

as_mixed_number(self) ==
    Tuple3(PyFloorDiv(self.num, self.den), PyModInts(Abs(self.num), self.den), self.den)

\* ------------------------------------------------------------------ state
\* f:     the Fraction object the caller holds, the receiver of the next call.
\* call:  the call in progress: the operation, its operands in the order of
\*        the expression (a op b, or op(a, b, c)), and what it returned or
\*        raised; NoCall between two calls.
\* heap:  the Fraction, Point and Line objects that exist, in the order of
\*        their creation; the identity of an object is its index.
VARIABLES f, call, heap

vars == <<f, call, heap>>

IntArgs == (-MaxVal)..MaxVal

Exponents == (-MaxExp)..MaxExp

\* A Fraction the caller keeps: one whose fields are within the bound.
Fits(v) == v.kind = "Fraction" /\ Abs(v.num) <= MaxVal /\ Abs(v.den) <= MaxVal

\* The Fraction operands: every Fraction the constructor builds from two ints.
FractionArgs ==
    {FractionDataType(PyInt(n), PyInt(d)) : n \in IntArgs, d \in IntArgs \ {0}}

\* The right-hand operands of a binary operator: a Fraction, an int, and a
\* float (0.5), which no operator accepts.
Operands == FractionArgs \cup {PyInt(n) : n \in IntArgs} \cup {PyFloat(1)}

\* The left-hand operands of a reflected operator.
LeftOperands == {PyInt(n) : n \in IntArgs} \cup {PyFloat(1)}

\* No call has been made, or the last one has been bound.
NoCall == [op |-> "none", a |-> None, b |-> None, c |-> None, result |-> None]

Init ==
    /\ f = FractionDataType1(PyInt(0))
    /\ call = NoCall
    /\ heap = <<>>

\* The caller evaluates one expression at a time: the call is made and its
\* outcome recorded; no operation changes the receiver.
Do(op, a, b, c, r) ==
    /\ call = NoCall
    /\ call' = [op |-> op, a |-> a, b |-> b, c |-> c, result |-> r]
    /\ UNCHANGED <<f, heap>>

\* The caller binds the outcome: a Fraction that was returned becomes the
\* receiver of the next call; an int or an exception is dropped.
Bind ==
    /\ call # NoCall
    /\ call' = NoCall
    /\ f' = IF Fits(call.result) THEN call.result ELSE f
    /\ UNCHANGED heap

Construct ==
    \E n \in IntArgs, d \in IntArgs :
        Do("__init__", PyInt(n), PyInt(d), None, FractionDataType(PyInt(n), PyInt(d)))

ConstructDefault ==
    \E n \in IntArgs : Do("__init__", PyInt(n), None, None, FractionDataType1(PyInt(n)))

Add == \E other \in Operands : Do("__add__", f, other, None, PyAdd(f, other))

RAdd == \E other \in LeftOperands : Do("__radd__", other, f, None, PyAdd(other, f))

Sub == \E other \in Operands : Do("__sub__", f, other, None, PySub(f, other))

RSub == \E other \in LeftOperands : Do("__rsub__", other, f, None, PySub(other, f))

Mul == \E other \in Operands : Do("__mul__", f, other, None, PyMul(f, other))

RMul == \E other \in LeftOperands : Do("__rmul__", other, f, None, PyMul(other, f))

TrueDiv == \E other \in Operands : Do("__truediv__", f, other, None, PyTrueDiv(f, other))

RTrueDiv ==
    \E other \in LeftOperands : Do("__rtruediv__", other, f, None, PyTrueDiv(other, f))

FloorDiv ==
    \E other \in Operands : Do("__floordiv__", f, other, None, PyFloorDivOp(f, other))

Mod == \E other \in Operands : Do("__mod__", f, other, None, PyMod(f, other))

Pow ==
    \E e \in {PyInt(n) : n \in Exponents} \cup {PyFloat(1), PyFloat(4)} :
        Do("__pow__", f, e, None, Fraction__pow__(f, e))

Neg == Do("__neg__", f, None, None, Fraction__neg__(f))

Pos == Do("__pos__", f, None, None, Fraction__pos__(f))

AbsOp == Do("__abs__", f, None, None, Fraction__abs__(f))

IntOf == Do("__int__", f, None, None, Fraction__int__(f))

Simplify == Do("simplify", f, None, None, simplify(f))

Reciprocal == Do("reciprocal", f, None, None, reciprocal(f))

\* from_mixed over a whole part, a numerator and a non-zero denominator
FromMixed ==
    \E w \in (-1)..1, n \in 0..MaxVal, d \in IntArgs :
        Do("from_mixed", PyInt(w), PyInt(n), PyInt(d), from_mixed(PyInt(w), PyInt(n), PyInt(d)))

Eq ==
    \/ \E other \in Operands : Do("__eq__", f, other, None, PyEq(f, other))
    \/ \E other \in LeftOperands : Do("__eq__", other, f, None, PyEq(other, f))

Ne ==
    \/ \E other \in Operands : Do("__ne__", f, other, None, PyNe(f, other))
    \/ \E other \in LeftOperands : Do("__ne__", other, f, None, PyNe(other, f))

Lt ==
    \/ \E other \in Operands : Do("__lt__", f, other, None, PyLt(f, other))
    \/ \E other \in LeftOperands : Do("__lt__", other, f, None, PyLt(other, f))

Le ==
    \/ \E other \in Operands : Do("__le__", f, other, None, PyLe(f, other))
    \/ \E other \in LeftOperands : Do("__le__", other, f, None, PyLe(other, f))

Gt ==
    \/ \E other \in Operands : Do("__gt__", f, other, None, PyGt(f, other))
    \/ \E other \in LeftOperands : Do("__gt__", other, f, None, PyGt(other, f))

Ge ==
    \/ \E other \in Operands : Do("__ge__", f, other, None, PyGe(f, other))
    \/ \E other \in LeftOperands : Do("__ge__", other, f, None, PyGe(other, f))

Hash == Do("__hash__", f, None, None, Fraction__hash__(f))

AsMixedNumber == Do("as_mixed_number", f, None, None, as_mixed_number(f))

Next ==
    \/ Construct
    \/ ConstructDefault
    \/ Add
    \/ RAdd
    \/ Sub
    \/ RSub
    \/ Mul
    \/ RMul
    \/ TrueDiv
    \/ RTrueDiv
    \/ FloorDiv
    \/ Mod
    \/ Pow
    \/ Neg
    \/ Pos
    \/ AbsOp
    \/ IntOf
    \/ Simplify
    \/ Reciprocal
    \/ FromMixed
    \/ Eq
    \/ Ne
    \/ Lt
    \/ Le
    \/ Gt
    \/ Ge
    \/ Hash
    \/ AsMixedNumber
    \/ Bind

Spec == Init /\ [][Next]_vars


\* ================================================================ properties
\* Mathematical notions the properties are stated in, independent of the code.

\* a and b > 0 have no common divisor above 1.
Coprime(a, b) == \A k \in 2..b : ~(a % k = 0 /\ b % k = 0)

\* The reduced form: a positive denominator, no common divisor, and 0 as 0/1.
Canonical(v) ==
    /\ v.kind = "Fraction"
    /\ v.den > 0
    /\ Coprime(Abs(v.num), v.den)
    /\ (v.num = 0 => v.den = 1)

\* v is the reduced form of the rational n/d (d # 0).
IsCanonicalFormOf(v, n, d) == Canonical(v) /\ v.num * d = n * v.den

IsFraction(v) == v.kind = "Fraction"

IsInt(v) == v.kind = "int"

\* The messages of the errors raised for a zero divisor.
ZeroMessages ==
    {"Denominator cannot be zero", "Cannot divide by zero", "Cannot take reciprocal of zero"}

\* v is the division-by-zero error: a ValueError whose message mentions zero.
IsZeroError(v) == v.kind = "ValueError" /\ v.msg \in ZeroMessages

\* The operations that return a Fraction.
FractionOps ==
    {"__init__", "__add__", "__radd__", "__sub__", "__rsub__", "__mul__", "__rmul__",
     "__truediv__", "__rtruediv__", "__mod__", "__pow__", "__neg__", "__pos__",
     "__abs__", "simplify", "reciprocal", "from_mixed"}

\* C1: every Fraction the constructor or a Fraction-returning operation yields
\* from ints and reduced operands is reduced (den > 0, gcd(|num|, den) = 1, and
\* num = 0 implies den = 1), and so is the receiver after any sequence of calls;
\* such an operation yields nothing but a Fraction or an error.
C1_CanonicalForm ==
    /\ Canonical(f)
    /\ \A v \in FractionArgs : Canonical(v)
    /\ call.op \in FractionOps =>
          \/ Canonical(call.result)
          \/ IsError(call.result)

\* C1 witness: a division whose raw result -10/12 style pair has a negative
\* denominator and a common factor, returned reduced.
C1_Witness ==
    /\ call.op = "__truediv__"
    /\ IsFraction(call.b)
    /\ call.a.den * call.b.num < 0
    /\ IsFraction(call.result)
    /\ call.result.den # Abs(call.a.den * call.b.num)
    /\ call.result.den > 1

\* C2: FractionDataType(n, d) of ints n and d # 0 is a Fraction of the same
\* rational value with a positive denominator (num * d = n * den); (3,-4) gives
\* -3/4, (-3,-4) gives 3/4; and FractionDataType(n) is n/1.
C2_ConstructionPreservesValue ==
    call.op = "__init__" =>
        /\ (call.b = None => call.result = Frac(call.a.num, 1))
        /\ (IsInt(call.b) /\ call.b.num # 0 =>
                /\ IsFraction(call.result)
                /\ call.result.den > 0
                /\ call.result.num * call.b.num = call.a.num * call.result.den)
        /\ (call.a = PyInt(3) /\ call.b = PyInt(-4) => call.result = Frac(-3, 4))
        /\ (call.a = PyInt(-3) /\ call.b = PyInt(-4) => call.result = Frac(3, 4))
        /\ (call.a = PyInt(2) /\ call.b = PyInt(4) => call.result = Frac(1, 2))

\* C2 witness: FractionDataType(-3, -4) has returned 3/4.
C2_Witness ==
    /\ call.op = "__init__"
    /\ call.a = PyInt(-3)
    /\ call.b = PyInt(-4)
    /\ call.result = Frac(3, 4)

\* C3: FractionDataType(n, 0) raises the ValueError "Denominator cannot be
\* zero" for every int n, 0 included, and the caller gets no Fraction from it.
C3_ZeroDenominatorFails ==
    call.op = "__init__" /\ call.b = PyInt(0) =>
        /\ call.result = ValueError("Denominator cannot be zero")
        /\ IsZeroError(call.result)
        /\ ~Fits(call.result)

\* C3 witness: FractionDataType(0, 0) has raised.
C3_Witness ==
    /\ call.op = "__init__"
    /\ call.a = PyInt(0)
    /\ call.b = PyInt(0)
    /\ call.result.kind = "ValueError"

\* C4: of two Fractions a/b and c/d, the sum is the reduced form of
\* (ad + bc)/bd, the difference of (ad - bc)/bd, the product of ac/bd and,
\* for c # 0, the quotient of ad/bc.
C4_Arithmetic ==
    IsFraction(call.a) /\ IsFraction(call.b) =>
        LET a == call.a.num
            b == call.a.den
            c == call.b.num
            d == call.b.den
        IN  /\ call.op = "__add__" => IsCanonicalFormOf(call.result, a * d + b * c, b * d)
            /\ call.op = "__sub__" => IsCanonicalFormOf(call.result, a * d - b * c, b * d)
            /\ call.op = "__mul__" => IsCanonicalFormOf(call.result, a * c, b * d)
            /\ call.op = "__truediv__" /\ c # 0 =>
                   IsCanonicalFormOf(call.result, a * d, b * c)

\* C4 witness: a sum of two Fractions with different denominators whose raw
\* pair (ad + bc, bd) had to be reduced.
C4_Witness ==
    /\ call.op = "__add__"
    /\ IsFraction(call.b)
    /\ call.a.den # call.b.den
    /\ call.a.den > 1
    /\ call.b.den > 1
    /\ IsFraction(call.result)
    /\ call.result.den # call.a.den * call.b.den

\* The Fraction n/1 an int operand stands for.
AsFraction(v) == Frac(v.num, 1)

\* C5: an int n on either side of +, -, *, / behaves as the Fraction n/1:
\* f + n = n + f = f + n/1, f * n = n * f = f * n/1, f - n = f - n/1,
\* n - f = n/1 - f, f / n = f / (n/1) for n # 0 and n / f = (n/1) / f for f # 0.
C5_IntOperandIsFraction ==
    /\ call.op = "__add__" /\ IsInt(call.b) =>
          /\ call.result = PyAdd(call.a, AsFraction(call.b))
          /\ call.result = PyAdd(call.b, call.a)
    /\ call.op = "__radd__" /\ IsInt(call.a) =>
          /\ call.result = PyAdd(AsFraction(call.a), call.b)
          /\ call.result = PyAdd(call.b, call.a)
    /\ call.op = "__mul__" /\ IsInt(call.b) =>
          /\ call.result = PyMul(call.a, AsFraction(call.b))
          /\ call.result = PyMul(call.b, call.a)
    /\ call.op = "__rmul__" /\ IsInt(call.a) =>
          /\ call.result = PyMul(AsFraction(call.a), call.b)
          /\ call.result = PyMul(call.b, call.a)
    /\ call.op = "__sub__" /\ IsInt(call.b) =>
          call.result = PySub(call.a, AsFraction(call.b))
    /\ call.op = "__rsub__" /\ IsInt(call.a) =>
          call.result = PySub(AsFraction(call.a), call.b)
    /\ call.op = "__truediv__" /\ IsInt(call.b) /\ call.b.num # 0 =>
          call.result = PyTrueDiv(call.a, AsFraction(call.b))
    /\ call.op = "__rtruediv__" /\ IsInt(call.a) /\ call.b.num # 0 =>
          call.result = PyTrueDiv(AsFraction(call.a), call.b)

\* C5 witness: n - f with an int n on the left has returned a Fraction that
\* differs from f - n.
C5_Witness ==
    /\ call.op = "__rsub__"
    /\ IsInt(call.a)
    /\ IsFraction(call.result)
    /\ call.result = PySub(AsFraction(call.a), call.b)
    /\ call.result # PySub(call.b, call.a)

\* The operand is a zero divisor: the Fraction 0 or the int 0.
IsZeroOperand(v) == (IsFraction(v) \/ IsInt(v)) /\ v.num = 0

\* C6: a division by a zero operand raises the division-by-zero error (a
\* ValueError that mentions zero) and returns nothing: f / g, f // g and f % g
\* for g the Fraction 0 or the int 0, n / g for g the Fraction 0, the
\* reciprocal of the Fraction 0, and the Fraction 0 to a negative int power.
C6_DivisionByZeroFails ==
    /\ call.op \in {"__truediv__", "__floordiv__", "__mod__"} /\ IsZeroOperand(call.b) =>
          IsZeroError(call.result)
    /\ call.op = "__rtruediv__" /\ IsInt(call.a) /\ call.b.num = 0 =>
          IsZeroError(call.result)
    /\ call.op = "reciprocal" /\ call.a.num = 0 => IsZeroError(call.result)
    /\ call.op = "__pow__" /\ call.a.num = 0 /\ IsInt(call.b) /\ call.b.num < 0 =>
          IsZeroError(call.result)

\* C6 witness: a non-zero Fraction floor-divided by the Fraction 0 has raised.
C6_Witness ==
    /\ call.op = "__floordiv__"
    /\ call.a.num # 0
    /\ call.b = Frac(0, 1)
    /\ call.result.kind = "ValueError"

\* C7: for Fractions f and g # 0, (f / g) * g is f, field for field.
C7_DivThenMulIsIdentity ==
    call.op = "__truediv__" /\ (IsFraction(call.b) \/ IsInt(call.b)) /\ call.b.num # 0 =>
        /\ IsFraction(call.result)
        /\ PyMul(call.result, call.b) = call.a

\* C7 witness: a non-zero Fraction has been divided by a negative Fraction
\* that is no integer.
C7_Witness ==
    /\ call.op = "__truediv__"
    /\ IsFraction(call.b)
    /\ call.b.num < 0
    /\ call.b.den > 1
    /\ call.a.num # 0
    /\ IsFraction(call.result)

\* q is the floor of n/d (d # 0): q <= n/d < q + 1.
IsFloorOf(q, n, d) ==
    IF d > 0 THEN q * d <= n /\ n < (q + 1) * d
    ELSE q * d >= n /\ n > (q + 1) * d

C9_ModConsistentWithFloorDiv ==
    call.op = "__mod__" /\ (IsFraction(call.b) \/ IsInt(call.b)) /\ call.b.num # 0 =>
        LET o == IF IsInt(call.b) THEN AsFraction(call.b) ELSE call.b
            q == PyFloorDivOp(call.a, call.b)
        IN  /\ IsFraction(call.result)
            /\ IsInt(q)
            /\ PyAdd(PyMul(o, q), call.result) = call.a
            /\ IsCanonicalFormOf(call.result,
                                 call.a.num * o.den - o.num * q.num * call.a.den,
                                 call.a.den * o.den)

\* C9 witness: a positive Fraction modulo a negative Fraction, with a
\* non-zero remainder.
C9_Witness ==
    /\ call.op = "__mod__"
    /\ IsFraction(call.b)
    /\ call.b.num < 0
    /\ call.a.num > 0
    /\ IsFraction(call.result)
    /\ call.result.num # 0

\* C10: for a Fraction f = a/b and an int n >= 0, f ** n is the reduced form
\* of a^n / b^n (f ** 0 is 1); for n < 0 and f # 0, f ** n is the reciprocal of
\* f to the power -n, which is also the reciprocal of f ** (-n); an exponent
\* that is no int raises TypeError.
C10_Power ==
    call.op = "__pow__" =>
        /\ IsInt(call.b) /\ call.b.num >= 0 =>
              /\ IsCanonicalFormOf(call.result, IntPow(call.a.num, call.b.num),
                                   IntPow(call.a.den, call.b.num))
              /\ (call.b.num = 0 => call.result = Frac(1, 1))
        /\ IsInt(call.b) /\ call.b.num < 0 /\ call.a.num # 0 =>
              /\ IsCanonicalFormOf(call.result, IntPow(call.a.den, -call.b.num),
                                   IntPow(call.a.num, -call.b.num))
              /\ call.result = Fraction__pow__(reciprocal(call.a), PyInt(-call.b.num))
              /\ call.result = reciprocal(Fraction__pow__(call.a, PyInt(-call.b.num)))
        /\ ~IsInt(call.b) => call.result.kind = "TypeError"

\* C10 witness: a negative Fraction that is no integer has been raised to a
\* negative odd power.
C10_Witness ==
    /\ call.op = "__pow__"
    /\ IsInt(call.b)
    /\ call.b.num < 0
    /\ call.b.num % 2 = 1
    /\ call.a.num < 0
    /\ call.a.den > 1
    /\ IsFraction(call.result)

\* The operand is a Fraction or an int, which stands for n/1.
IsRational(v) == IsFraction(v) \/ IsInt(v)

\* The denominator of a Fraction or of an int taken as n/1.
DenOf(v) == IF IsInt(v) THEN 1 ELSE v.den

\* C11: comparisons agree with cross-multiplication: for a/b and c/d, with an
\* int n on either side standing for n/1, a/b == c/d iff ad = cb, a/b < c/d iff
\* ad < cb, and likewise <=, >, >=.
C11_ComparisonsCrossMultiply ==
    IsRational(call.a) /\ IsRational(call.b) =>
        LET ad == call.a.num * DenOf(call.b)
            cb == call.b.num * DenOf(call.a)
        IN  /\ call.op = "__eq__" => call.result = PyBool(ad = cb)
            /\ call.op = "__lt__" => call.result = PyBool(ad < cb)
            /\ call.op = "__le__" => call.result = PyBool(ad <= cb)
            /\ call.op = "__gt__" => call.result = PyBool(ad > cb)
            /\ call.op = "__ge__" => call.result = PyBool(ad >= cb)

\* C11 witness: a Fraction with the larger numerator has compared less than
\* an int.
C11_Witness ==
    /\ call.op = "__lt__"
    /\ IsFraction(call.a)
    /\ IsInt(call.b)
    /\ call.a.num > call.b.num
    /\ call.b.num > 0
    /\ call.result = PyBool(TRUE)

\* C12: the hash of a Fraction is the hash of its pair (num, den), so that two
\* Fractions that compare equal hash alike, those built from different
\* unreduced pairs of one value, such as (1,2) and (2,4), included.
C12_HashConsistentWithEq ==
    /\ call.op = "__hash__" =>
          /\ call.result = HashOfPair(call.a.num, call.a.den)
          /\ \A v \in FractionArgs :
                 PyEq(call.a, v) = PyBool(TRUE) => Fraction__hash__(v) = call.result
    /\ call.op = "__init__" /\ IsInt(call.b) /\ call.b.num # 0 =>
          \A n \in IntArgs, d \in IntArgs \ {0} :
              n * call.b.num = call.a.num * d =>
                  LET o == FractionDataType(PyInt(n), PyInt(d))
                  IN  /\ PyEq(call.result, o) = PyBool(TRUE)
                      /\ Fraction__hash__(call.result) = Fraction__hash__(o)

\* C12 witness: a Fraction that equals one built from an unreduced pair has
\* been hashed.
C12_Witness ==
    /\ call.op = "__hash__"
    /\ call.a = FractionDataType(PyInt(2), PyInt(4))
    /\ call.result = HashOfPair(1, 2)

\* C13: simplify returns a Fraction with the receiver's num and den, and
\* simplifying that again changes nothing.
C13_SimplifyIsNoOp ==
    call.op = "simplify" =>
        /\ IsFraction(call.result)
        /\ call.result.num = call.a.num
        /\ call.result.den = call.a.den
        /\ simplify(call.result) = call.result

\* C13 witness: a Fraction that is no integer has been simplified.
C13_Witness ==
    /\ call.op = "simplify"
    /\ call.a.den > 1
    /\ call.a.num < 0
    /\ IsFraction(call.result)

\* C14: for a non-zero Fraction f of either sign, f * f.reciprocal() is 1,
\* the reciprocal of the reciprocal is f, and the reciprocal carries f's sign in
\* its numerator, over a positive denominator.
C14_ReciprocalIsInverse ==
    call.op = "reciprocal" /\ call.a.num # 0 =>
        /\ IsFraction(call.result)
        /\ PyMul(call.a, call.result) = Frac(1, 1)
        /\ reciprocal(call.result) = call.a
        /\ call.result.den > 0
        /\ (call.result.num < 0) = (call.a.num < 0)

\* C14 witness: the reciprocal of a negative Fraction that is no integer.
C14_Witness ==
    /\ call.op = "reciprocal"
    /\ call.a.num < -1
    /\ call.a.den > 1
    /\ IsFraction(call.result)

\* r is n mod d (d > 0): 0 <= r < d and d divides n - r.
IsRemainderOf(r, n, d) == 0 <= r /\ r < d /\ (n - r) % d = 0

\* C15: as_mixed_number returns (whole, remainder, den) with whole the floor
\* of num/den, remainder |num| mod den (so 0 <= remainder < den) and den the
\* Fraction's den, for negative Fractions too: -4/3 gives (-2, 1, 3).
C15_AsMixedNumber ==
    call.op = "as_mixed_number" =>
        /\ call.result.kind = "tuple"
        /\ IsFloorOf(call.result.whole, call.a.num, call.a.den)
        /\ IsRemainderOf(call.result.num, Abs(call.a.num), call.a.den)
        /\ call.result.den = call.a.den
        /\ (call.a = Frac(-4, 3) => call.result = Tuple3(-2, 1, 3))
        /\ (call.a = Frac(5, 3) => call.result = Tuple3(1, 2, 3))

\* C15 witness: as_mixed_number of -4/3 has returned (-2, 1, 3).
C15_Witness ==
    /\ call.op = "as_mixed_number"
    /\ call.a = Frac(-4, 3)
    /\ call.result = Tuple3(-2, 1, 3)

\* C16: a non-negative Fraction is what from_mixed rebuilds from its
\* as_mixed_number triple, and from_mixed(whole, num, den) is the reduced form
\* of (whole * den + num) / den.
C16_MixedRoundTrip ==
    /\ call.op = "as_mixed_number" /\ call.a.num >= 0 =>
          from_mixed(PyInt(call.result.whole), PyInt(call.result.num),
                     PyInt(call.result.den)) = call.a
    /\ call.op = "from_mixed" /\ call.c.num # 0 =>
          IsCanonicalFormOf(call.result, call.a.num * call.c.num + call.b.num, call.c.num)

\* C16 witness: the triple of a positive improper Fraction that is no
\* integer, with a whole part and a remainder.
C16_Witness ==
    /\ call.op = "as_mixed_number"
    /\ call.a.num > call.a.den
    /\ call.a.den > 1
    /\ call.result.whole > 0
    /\ call.result.num > 0

\* C17: the triple as_mixed_number returns represents the Fraction:
\* whole + numerator/denominator is f, that is whole * denominator + numerator
\* is f.num, for every Fraction f.  Violated by the code: -4/3 gives
\* (-2, 1, 3), and -2 * 3 + 1 is -5.
C17_MixedNumberRepresents ==
    call.op = "as_mixed_number" =>
        call.result.whole * call.result.den + call.result.num = call.a.num


\* The comparison operators
CompareOps == {"__eq__", "__ne__", "__lt__", "__le__", "__gt__", "__ge__"}

IsTrue(v) == v = PyBool(TRUE)

\* C27: the comparisons of Fractions and ints form a total order: exactly one
\* of x < y, x == y, x > y is true; x <= y iff x < y or x == y; x >= y iff not
\* x < y; x != y iff not x == y; and < is transitive.
C27_TotalOrder ==
    (call.op \in CompareOps /\ IsRational(call.a) /\ IsRational(call.b)) =>
        LET x == call.a
            y == call.b
            lt == IsTrue(PyLt(x, y))
            eq == IsTrue(PyEq(x, y))
            gt == IsTrue(PyGt(x, y))
        IN  /\ \A r \in {PyLt(x, y), PyLe(x, y), PyGt(x, y), PyGe(x, y),
                         PyEq(x, y), PyNe(x, y)} : r.kind = "bool"
            /\ lt \/ eq \/ gt
            /\ ~(lt /\ eq) /\ ~(lt /\ gt) /\ ~(eq /\ gt)
            /\ IsTrue(PyLe(x, y)) <=> (lt \/ eq)
            /\ IsTrue(PyGe(x, y)) <=> ~lt
            /\ IsTrue(PyNe(x, y)) <=> ~eq
            /\ \A z \in FractionArgs :
                   (lt /\ IsTrue(PyLt(y, z))) => IsTrue(PyLt(x, z))

\* 1/2 >= 1/2 has been evaluated, and is true.
C27_Witness ==
    /\ call.op = "__ge__"
    /\ call.a = Frac(1, 2)
    /\ call.b = Frac(1, 2)
    /\ call.result = PyBool(TRUE)

\* C28: f % g lies in the half-open range of the divisor and takes its sign:
\* 0 <= f % g < g for g > 0, g < f % g <= 0 for g < 0; and f % g is 0 exactly
\* when f is an integer multiple of g.
C28_ModRange ==
    (call.op = "__mod__" /\ IsRational(call.b) /\ call.b.num # 0) =>
        LET gn == call.b.num
            gd == DenOf(call.b)
            r == call.result
        IN  /\ IsFraction(r)
            /\ gn > 0 => (0 <= r.num /\ r.num * gd < gn * r.den)
            /\ gn < 0 => (r.num <= 0 /\ r.num * gd > gn * r.den)
            /\ r.num = 0 <=> (call.a.num * gd) % Abs(call.a.den * gn) = 0

\* A negative Fraction modulo a positive one has left a positive remainder,
\* and a positive Fraction modulo a negative one a negative remainder.
C28_Witness ==
    /\ call.op = "__mod__"
    /\ IsFraction(call.b)
    /\ IsFraction(call.result)
    /\ \/ call.a.num < 0 /\ call.b.num > 0 /\ call.result.num > 0
       \/ call.a.num > 0 /\ call.b.num < 0 /\ call.result.num < 0

\* ------------------------------------------- construction from floats
\* The floats k/2 up to MaxVal in magnitude: the integral ones and the halves
\* between them.
FloatArgs == {PyFloat(h) : h \in (-2 * MaxVal)..(2 * MaxVal)}

\* FractionDataType(num, den) with a float denominator and an int or float
\* numerator, which the signature Union[int, float] admits.
ConstructFloat ==
    /\ call = NoCall
    /\ \E num \in {PyInt(n) : n \in IntArgs} \cup FloatArgs, den \in FloatArgs :
           Do("__init__", num, den, None, FractionDataType(num, den))

NextFloat ==
    \/ Construct
    \/ ConstructFloat
    \/ Bind

SpecFloat == Init /\ [][NextFloat]_vars

\* C29: the constructor never yields a Fraction with a zero denominator: for
\* every int or float numerator and every nonzero int or float denominator,
\* a float d with 0 < |d| < 1 included, the call raises the zero-denominator
\* error or returns a Fraction with den > 0.
C29_DenominatorNeverZero ==
    (call.op = "__init__" /\ call.b # None /\ ~EqZero(call.b)) =>
        \/ call.result = ValueError("Denominator cannot be zero")
        \/ IsFraction(call.result) /\ call.result.den > 0

(***************************************************************************)
(* A model of the Point and Line value types of cordination_geo.py.        *)
(*                                                                         *)
(* A float is modelled by the rational [n, d] it holds (d > 0, reduced):   *)
(* the arguments are small integers, on which the float operations +, -    *)
(* and * are exact; a quotient is the exact rational, its rounding to a    *)
(* double is not modelled.  math.hypot is modelled where its value is      *)
(* rational, math.atan2 by the pair of its arguments.                      *)
(* A Point is [kind, x, y], a Line [kind, A, B, C], a float result         *)
(* [kind, v]; None, bools and exceptions are the records used above.       *)
(***************************************************************************)

\* ------------------------------------------------------------------ bounds
\* Largest magnitude of a coordinate of a Point argument and of a coefficient
\* of a Line argument.
MaxCoord == 2

\* ----------------------------------------------------------------- floats
\* The float n/d
Q(n, d) ==
    LET g == gcd(Abs(n), Abs(d))
        sgn == IF d < 0 THEN -1 ELSE 1
    IN  [n |-> (sgn * n) \div g, d |-> (sgn * d) \div g]

\* float(i) of an int
float(i) == Q(i, 1)

FAdd(a, b) == Q(a.n * b.d + b.n * a.d, a.d * b.d)

FSub(a, b) == Q(a.n * b.d - b.n * a.d, a.d * b.d)

FMul(a, b) == Q(a.n * b.n, a.d * b.d)

FNeg(a) == Q(-a.n, a.d)

FAbs(a) == Q(Abs(a.n), a.d)

\* a / b for b # 0
FQuot(a, b) == Q(a.n * b.d, a.d * b.n)

FloatDivisionError == Val("ZeroDivisionError", 0, 0, "float division by zero")

\* A float returned to the caller
Float(q) == [kind |-> "float", v |-> q]

\* The expression a / b as a value: ZeroDivisionError when b is 0.0.
FDiv(a, b) == IF b.n = 0 THEN FloatDivisionError ELSE Float(FQuot(a, b))

\* The integer square root of a perfect square
ISqrt(k) == CHOOSE r \in 0..k : r * r = k

IsSquare(k) == \E r \in 0..k : r * r = k

\* math.hypot(a, b) is rational
HasRationalHypot(a, b) ==
    LET h2 == FAdd(FMul(a, a), FMul(b, b)) IN IsSquare(h2.n) /\ IsSquare(h2.d)

\* math.hypot(a, b), where it is rational
hypot(a, b) ==
    LET h2 == FAdd(FMul(a, a), FMul(b, b)) IN Q(ISqrt(h2.n), ISqrt(h2.d))

\* math.atan2(y, x): 0.0 for y = 0 and x >= 0 (atan2(-0.0, 0.0) is -0.0),
\* otherwise the angle of the vector (x, y), which the pair stands for.
atan2(y, x) ==
    IF y.n = 0 /\ x.n >= 0 THEN Float(Q(0, 1))
    ELSE [kind |-> "float", atan2 |-> <<y, x>>]

\* ----------------------------------------------------------- math.isclose
\* The default rel_tol of math.isclose is 1e-09.
DefaultRelTolExp == 9
\* abs_tol=1e-9 of contains_point
ContainsTolExp == 9
\* abs_tol=1e-12 of intersection_with
DetTolExp == 12

\* floor(k / 10^e)
RECURSIVE DivPow10(_, _)
DivPow10(k, e) == IF e = 0 THEN k ELSE DivPow10(k \div 10, e - 1)

\* x <= 10^(-e) * m for floats x >= 0 and m >= 0 (the common factor of the
\* denominators is cancelled first, which keeps the products small)
LeScaled(x, m, e) ==
    LET g == gcd(x.d, m.d)
    IN  x.n * (m.d \div g) <= DivPow10(m.n * (x.d \div g), e)

\* x <= 10^(-e) for a float x >= 0
LeTol(x, e) == x.n <= DivPow10(x.d, e)

\* math.isclose(a, b, rel_tol=10^(-rel), abs_tol=10^(-abs))
isclose(a, b, rel, abs) ==
    LET diff == FAbs(FSub(b, a))
    IN  \/ a = b
        \/ LeScaled(diff, FAbs(b), rel)
        \/ LeScaled(diff, FAbs(a), rel)
        \/ LeTol(diff, abs)

\* math.isclose(a, b): rel_tol=1e-09 and abs_tol=0.0
isclose_default(a, b) ==
    LET diff == FAbs(FSub(b, a))
    IN  \/ a = b
        \/ LeScaled(diff, FAbs(b), DefaultRelTolExp)
        \/ LeScaled(diff, FAbs(a), DefaultRelTolExp)
        \/ diff.n = 0

\* ------------------------------------------------------------------ Point
Point(x, y) == [kind |-> "Point", x |-> x, y |-> y]

IsPoint(v) == v.kind = "Point"

\* rel_tol=1e-9 and abs_tol=1e-9 of Point.__eq__
PointTolExp == 9

AttributeError == Val("AttributeError", 0, 0, "object has no attribute 'x'")

Point__eq__(self, other) ==
    IF ~IsPoint(other) THEN PyBool(FALSE)
    ELSE PyBool(/\ isclose(self.x, other.x, PointTolExp, PointTolExp)
                /\ isclose(self.y, other.y, PointTolExp, PointTolExp))

Point__add__(self, other) ==
    IF ~IsPoint(other) THEN NotImplemented
    ELSE Point(FAdd(self.x, other.x), FAdd(self.y, other.y))

Point__sub__(self, other) ==
    IF ~IsPoint(other) THEN NotImplemented
    ELSE Point(FSub(self.x, other.x), FSub(self.y, other.y))

Point__neg__(self) == Point(FNeg(self.x), FNeg(self.y))

Point_copy(self) == Point(self.x, self.y)

Point_distance_to(self, other) ==
    IF ~IsPoint(other) THEN ValueError("Argument must be a Point instance")
    ELSE Float(hypot(FSub(self.x, other.x), FSub(self.y, other.y)))

Point_magnitude(self) == hypot(self.x, self.y)

\* A faulty variant of normalize: only x is divided by the magnitude.
Point_normalize_XOnly(self) ==
    LET m == Point_magnitude(self)
    IN  IF m.n = 0 THEN ValueError("Cannot normalize zero-length vector")
        ELSE Point(FQuot(self.x, m), self.y)

Point_normalize(self) ==
    LET m == Point_magnitude(self)
    IN  IF m.n = 0 THEN ValueError("Cannot normalize zero-length vector")
        ELSE Point(FQuot(self.x, m), FQuot(self.y, m))

Point_dot(self, other) ==
    IF ~IsPoint(other) THEN ValueError("Argument must be a Point instance")
    ELSE Float(FAdd(FMul(self.x, other.x), FMul(self.y, other.y)))

Point_cross(self, other) ==
    IF ~IsPoint(other) THEN ValueError("Argument must be a Point instance")
    ELSE Float(FSub(FMul(self.x, other.y), FMul(self.y, other.x)))

\* The rationals have one zero. Where a product of the code is -0.0 (a zero
\* coordinate times a negative one), math.atan2(0.0, -0.0) is pi, while
\* atan2(0, 0) here is 0.0: the angle to a zero vector is not represented.
Point_angle_between(self, other) ==
    IF ~IsPoint(other) THEN ValueError("Argument must be a Point instance")
    ELSE atan2(Point_cross(self, other).v, Point_dot(self, other).v)

\* An angle in radians is given by its cosine and its sine, which
\* math.cos and math.sin return.
Radians(c, s) == [kind |-> "float", cos |-> c, sin |-> s]

\* rotate reads origin.x and origin.y without testing the kind of origin: an
\* origin without these attributes raises AttributeError.
Point_rotate(self, angle_rad, origin) ==
    LET o == IF origin = None THEN Point(float(0), float(0)) ELSE origin
    IN  IF ~IsPoint(o) THEN AttributeError
        ELSE LET x == FSub(self.x, o.x)
                 y == FSub(self.y, o.y)
                 ca == angle_rad.cos
                 sa == angle_rad.sin
                 xr == FSub(FMul(x, ca), FMul(y, sa))
                 yr == FAdd(FMul(x, sa), FMul(y, ca))
             IN  Point(FAdd(xr, o.x), FAdd(yr, o.y))

Point_midpoint(self, other) ==
    IF ~IsPoint(other) THEN ValueError("Argument must be a Point instance")
    ELSE Point(FQuot(FAdd(self.x, other.x), float(2)),
               FQuot(FAdd(self.y, other.y), float(2)))

\* ------------------------------------------------------------------- Line
Line(A, B, C) == [kind |-> "Line", A |-> A, B |-> B, C |-> C]

IsLine(v) == v.kind = "Line"

\* A * x + B * y + C
LineValue(self, point) ==
    FAdd(FAdd(FMul(self.A, point.x), FMul(self.B, point.y)), self.C)

\* from_points with B = x1 - x2
Line_from_points_BNegated(p1, p2) ==
    IF ~IsPoint(p1) \/ ~IsPoint(p2) THEN ValueError("Arguments must be Point instances")
    ELSE Line(FSub(p1.y, p2.y),
              FSub(p1.x, p2.x),
              FSub(FMul(p1.x, p2.y), FMul(p2.x, p1.y)))

Line_from_points(p1, p2) ==
    IF ~IsPoint(p1) \/ ~IsPoint(p2) THEN ValueError("Arguments must be Point instances")
    ELSE Line(FSub(p1.y, p2.y),
              FSub(p2.x, p1.x),
              FSub(FMul(p1.x, p2.y), FMul(p2.x, p1.y)))

Line_contains_point(self, point) ==
    IF ~IsPoint(point) THEN ValueError("Argument must be a Point instance")
    ELSE PyBool(isclose(LineValue(self, point), float(0), DefaultRelTolExp, ContainsTolExp))

Line_shortest_distance_to_point(self, point) ==
    IF ~IsPoint(point) THEN ValueError("Argument must be a Point instance")
    ELSE LET numerator == FAbs(LineValue(self, point))
             denominator == hypot(self.A, self.B)
         IN  FDiv(numerator, denominator)

\* intersection_with with y = (A1*C2 - A2*C1) / determinant
Line_intersection_with_YNegated(self, other) ==
    IF ~IsLine(other) THEN ValueError("Argument must be a Line instance")
    ELSE LET determinant == FSub(FMul(self.A, other.B), FMul(other.A, self.B))
         IN  IF isclose(determinant, float(0), DefaultRelTolExp, DetTolExp) THEN None
             ELSE Point(FQuot(FSub(FMul(self.B, other.C), FMul(other.B, self.C)),
                              determinant),
                        FQuot(FSub(FMul(self.A, other.C), FMul(other.A, self.C)),
                              determinant))

Line_intersection_with(self, other) ==
    IF ~IsLine(other) THEN ValueError("Argument must be a Line instance")
    ELSE LET determinant == FSub(FMul(self.A, other.B), FMul(other.A, self.B))
         IN  IF isclose(determinant, float(0), DefaultRelTolExp, DetTolExp) THEN None
             ELSE Point(FQuot(FSub(FMul(self.B, other.C), FMul(other.B, self.C)),
                              determinant),
                        FQuot(FSub(FMul(other.A, self.C), FMul(self.A, other.C)),
                              determinant))

\* A faulty variant of project_point: y is moved against the normal.
Line_project_point_YAdded(self, point) ==
    IF ~IsPoint(point) THEN ValueError("Argument must be a Point instance")
    ELSE LET denom == FAdd(FMul(self.A, self.A), FMul(self.B, self.B))
         IN  IF isclose_default(denom, float(0)) THEN ValueError("Invalid line coefficients")
             ELSE LET factor == FQuot(LineValue(self, point), denom)
                  IN  Point(FSub(point.x, FMul(self.A, factor)),
                            FAdd(point.y, FMul(self.B, factor)))

Line_project_point(self, point) ==
    IF ~IsPoint(point) THEN ValueError("Argument must be a Point instance")
    ELSE LET denom == FAdd(FMul(self.A, self.A), FMul(self.B, self.B))
         IN  IF isclose_default(denom, float(0)) THEN ValueError("Invalid line coefficients")
             ELSE LET factor == FQuot(LineValue(self, point), denom)
                  IN  Point(FSub(point.x, FMul(self.A, factor)),
                            FSub(point.y, FMul(self.B, factor)))

Line_angle(self) == atan2(FNeg(self.A), self.B)

\* abs_tol=1e-12 of is_parallel
ParallelTolExp == 12
\* abs_tol=1e-9 of is_perpendicular
PerpendicularTolExp == 9

\* A faulty variant of is_parallel: the normals compared coefficient by coefficient.
Line_is_parallel_SameNormal(self, other) ==
    IF ~IsLine(other) THEN ValueError("Argument must be a Line instance")
    ELSE PyBool(/\ isclose(self.A, other.A, DefaultRelTolExp, ParallelTolExp)
                /\ isclose(self.B, other.B, DefaultRelTolExp, ParallelTolExp))

Line_is_parallel(self, other) ==
    IF ~IsLine(other) THEN ValueError("Argument must be a Line instance")
    ELSE PyBool(isclose(FMul(self.A, other.B), FMul(other.A, self.B),
                        DefaultRelTolExp, ParallelTolExp))

Line_is_perpendicular(self, other) ==
    IF ~IsLine(other) THEN ValueError("Argument must be a Line instance")
    ELSE PyBool(isclose(FAdd(FMul(self.A, other.A), FMul(self.B, other.B)), float(0),
                        DefaultRelTolExp, PerpendicularTolExp))

Line_parallel_through(self, point) ==
    IF ~IsPoint(point) THEN ValueError("Argument must be a Point instance")
    ELSE LET C == FNeg(FAdd(FMul(self.A, point.x), FMul(self.B, point.y)))
         IN  Line(self.A, self.B, C)

\* A faulty variant of perpendicular_through: the normal (B, A).
Line_perpendicular_through_NoSign(self, point) ==
    IF ~IsPoint(point) THEN ValueError("Argument must be a Point instance")
    ELSE LET A_p == self.B
             B_p == self.A
             C_p == FNeg(FAdd(FMul(A_p, point.x), FMul(B_p, point.y)))
         IN  Line(A_p, B_p, C_p)

Line_perpendicular_through(self, point) ==
    IF ~IsPoint(point) THEN ValueError("Argument must be a Point instance")
    ELSE LET A_p == self.B
             B_p == FNeg(self.A)
             C_p == FNeg(FAdd(FMul(A_p, point.x), FMul(B_p, point.y)))
         IN  Line(A_p, B_p, C_p)

Line_unit_normal(self) ==
    LET s == hypot(self.A, self.B)
    IN  IF isclose_default(s, float(0)) THEN ValueError("Invalid line coefficients")
        ELSE Point(FQuot(self.A, s), FQuot(self.B, s))

Line_offset(self, distance) ==
    LET s == hypot(self.A, self.B)
    IN  IF isclose_default(s, float(0)) THEN ValueError("Invalid line coefficients")
        ELSE Line(self.A, self.B, FSub(self.C, FMul(s, distance)))


\* Point(x, y) and Line(A, B, C) called with ints: __init__ stores floats.
Point__init__(x, y) == Point(float(x), float(y))

Line__init__(A, B, C) == Line(float(A), float(B), float(C))

\* ------------------------------------------------ geometry: state machine
Coords == -MaxCoord..MaxCoord

\* The points of test_line_distance_to_point and
\* test_point_magnitude_and_normalization, which lie outside MaxCoord.
ScenarioPoints == {Point__init__(2, 3), Point__init__(3, 4)}

PointArgs ==
    {Point__init__(x, y) : x \in Coords, y \in Coords} \cup ScenarioPoints

\* The lines of test_line_distance_to_point, test_line_intersection and
\* test_line_unit_normal, whose coefficients exceed MaxCoord.
ScenarioLines ==
    {Line__init__(3, 4, -12), Line__init__(1, 1, -4), Line__init__(3, 4, 5)}

\* Every line with small coefficients, the degenerate ones (A = B = 0)
\* included: __init__ accepts them.
LineArgs ==
    {Line__init__(A, B, C) : A \in Coords, B \in Coords, C \in Coords}
        \cup ScenarioLines

\* The lines on which math.hypot(A, B) is rational
HypotLineArgs == {l \in LineArgs : HasRationalHypot(l.A, l.B)}

\* Arguments that are no Point, and arguments that are no Line
NonPoints == {PyInt(1), None, Line__init__(1, 1, 0)}

NonLines == {PyInt(1), None, Point__init__(1, 1)}

PointOrOther == PointArgs \cup NonPoints

\* Line(1, 1, 0) and Line(1, 1 + 5e-10, 0): A1*B2 and A2*B1 differ by 5e-10,
\* which is below 1e-9 of their size and above 1e-12.
NearParallelPairs ==
    LET l1 == Line__init__(1, 1, 0)
        l2 == Line(float(1), Q(2000000001, 2000000000), float(0))
    IN  {<<l1, l2>>, <<l2, l1>>}

LinePairs == (LineArgs \X (LineArgs \cup NonLines)) \cup NearParallelPairs

\* The angles 0, pi/2, pi and atan2(4, 3)
Angles ==
    {Radians(float(1), float(0)), Radians(float(0), float(1)),
     Radians(float(-1), float(0)), Radians(Q(3, 5), Q(4, 5))}

\* math.hypot of the difference of two points is rational
HasRationalDistance(p, q) == HasRationalHypot(FSub(p.x, q.x), FSub(p.y, q.y))

FromPoints ==
    /\ call = NoCall
    /\ \E p1 \in PointOrOther, p2 \in PointOrOther :
           Do("from_points", p1, p2, None, Line_from_points(p1, p2))

ContainsPoint ==
    /\ call = NoCall
    /\ \E l \in LineArgs, p \in PointOrOther :
           Do("contains_point", l, p, None, Line_contains_point(l, p))

ShortestDistanceToPoint ==
    /\ call = NoCall
    /\ \E l \in HypotLineArgs, p \in PointOrOther :
           Do("shortest_distance_to_point", l, p, None,
              Line_shortest_distance_to_point(l, p))

IsParallel ==
    /\ call = NoCall
    /\ \E pair \in LinePairs :
           Do("is_parallel", pair[1], pair[2], None,
              Line_is_parallel(pair[1], pair[2]))

IsPerpendicular ==
    /\ call = NoCall
    /\ \E l1 \in LineArgs, l2 \in LineArgs \cup NonLines :
           Do("is_perpendicular", l1, l2, None, Line_is_perpendicular(l1, l2))

IntersectionWith ==
    /\ call = NoCall
    /\ \E pair \in LinePairs :
           Do("intersection_with", pair[1], pair[2], None,
              Line_intersection_with(pair[1], pair[2]))

ProjectPoint ==
    /\ call = NoCall
    /\ \E l \in LineArgs, p \in PointOrOther :
           Do("project_point", l, p, None, Line_project_point(l, p))

Angle ==
    /\ call = NoCall
    /\ \E l \in LineArgs : Do("angle", l, None, None, Line_angle(l))

UnitNormal ==
    /\ call = NoCall
    /\ \E l \in HypotLineArgs :
           Do("unit_normal", l, None, None, Line_unit_normal(l))

Offset ==
    /\ call = NoCall
    /\ \E l \in HypotLineArgs, distance \in Coords :
           Do("offset", l, float(distance), None, Line_offset(l, float(distance)))

ParallelThrough ==
    /\ call = NoCall
    /\ \E l \in LineArgs, p \in PointOrOther :
           Do("parallel_through", l, p, None, Line_parallel_through(l, p))

PerpendicularThrough ==
    /\ call = NoCall
    /\ \E l \in LineArgs, p \in PointOrOther :
           Do("perpendicular_through", l, p, None, Line_perpendicular_through(l, p))

\* The expressions p == other, p + other and p - other
PointEq ==
    /\ call = NoCall
    /\ \E p \in PointArgs, other \in PointOrOther :
           Do("Point.__eq__", p, other, None, Point__eq__(p, other))

PointAdd ==
    /\ call = NoCall
    /\ \E p \in PointArgs, other \in PointOrOther :
           Do("Point.__add__", p, other, None, Dispatch(Point__add__(p, other)))

PointSub ==
    /\ call = NoCall
    /\ \E p \in PointArgs, other \in PointOrOther :
           Do("Point.__sub__", p, other, None, Dispatch(Point__sub__(p, other)))

DistanceTo ==
    /\ call = NoCall
    /\ \E p \in PointArgs, other \in PointOrOther :
           /\ IsPoint(other) => HasRationalDistance(p, other)
           /\ Do("distance_to", p, other, None, Point_distance_to(p, other))

Normalize ==
    /\ call = NoCall
    /\ \E p \in PointArgs :
           /\ HasRationalHypot(p.x, p.y)
           /\ Do("normalize", p, None, None, Point_normalize(p))

Dot ==
    /\ call = NoCall
    /\ \E p \in PointArgs, other \in PointOrOther :
           Do("dot", p, other, None, Point_dot(p, other))

Cross ==
    /\ call = NoCall
    /\ \E p \in PointArgs, other \in PointOrOther :
           Do("cross", p, other, None, Point_cross(p, other))

AngleBetween ==
    /\ call = NoCall
    /\ \E p \in PointArgs, other \in PointOrOther :
           Do("angle_between", p, other, None, Point_angle_between(p, other))

Rotate ==
    /\ call = NoCall
    /\ \E p \in PointArgs, angle_rad \in Angles, origin \in PointOrOther :
           Do("rotate", p, angle_rad, origin, Point_rotate(p, angle_rad, origin))

Midpoint ==
    /\ call = NoCall
    /\ \E p \in PointArgs, other \in PointOrOther :
           Do("midpoint", p, other, None, Point_midpoint(p, other))

GeoNext ==
    \/ FromPoints
    \/ ContainsPoint
    \/ ShortestDistanceToPoint
    \/ IsParallel
    \/ IsPerpendicular
    \/ IntersectionWith
    \/ ProjectPoint
    \/ Angle
    \/ UnitNormal
    \/ Offset
    \/ ParallelThrough
    \/ PerpendicularThrough
    \/ PointEq
    \/ PointAdd
    \/ PointSub
    \/ DistanceTo
    \/ Normalize
    \/ Dot
    \/ Cross
    \/ AngleBetween
    \/ Rotate
    \/ Midpoint
    \/ Bind

SpecGeo == Init /\ [][GeoNext]_vars

\* ------------------------------------------------- geometry: properties
\* A = B = 0: the line has no direction.
IsDegenerate(l) == l.A.n = 0 /\ l.B.n = 0

\* The operations of Line that need the direction or the normal of the line
DirectionOps ==
    {"shortest_distance_to_point", "project_point", "unit_normal", "offset", "angle"}

\* C18: every operation that needs the direction or the normal of a line
\* (shortest_distance_to_point, project_point, unit_normal, offset, angle)
\* raises an error when it is called on a line with A = B = 0.
C18_DegenerateLineRaises ==
    (call.op \in DirectionOps /\ IsDegenerate(call.a)) => IsError(call.result)

\* C19: intersection_with returns None, and no error, when the determinant
\* D = A1*B2 - A2*B1 is zero within the tolerance 1e-12 (parallel and
\* identical lines), and otherwise the one point that satisfies the equations
\* of both lines.
C19_Intersection ==
    (call.op = "intersection_with" /\ IsLine(call.b)) =>
        LET D == FSub(FMul(call.a.A, call.b.B), FMul(call.b.A, call.a.B))
        IN  IF LeTol(FAbs(D), DetTolExp) THEN call.result = None
            ELSE /\ IsPoint(call.result)
                 /\ LineValue(call.a, call.result) = float(0)
                 /\ LineValue(call.b, call.result) = float(0)

\* Line(1, -1, 0) and Line(1, 1, -4) meet in the point (2, 2).
C19_Witness ==
    /\ call.op = "intersection_with"
    /\ call.a = Line__init__(1, -1, 0)
    /\ call.b = Line__init__(1, 1, -4)
    /\ call.result = Point__init__(2, 2)

\* C20: from_points(p1, p2) is the line with A = p1.y - p2.y,
\* B = p2.x - p1.x and C = p1.x*p2.y - p2.x*p1.y, and the line contains both
\* p1 and p2.
C20_FromPoints ==
    (call.op = "from_points" /\ IsPoint(call.a) /\ IsPoint(call.b)) =>
        /\ IsLine(call.result)
        /\ call.result.A = FSub(call.a.y, call.b.y)
        /\ call.result.B = FSub(call.b.x, call.a.x)
        /\ call.result.C = FSub(FMul(call.a.x, call.b.y), FMul(call.b.x, call.a.y))
        /\ Line_contains_point(call.result, call.a) = PyBool(TRUE)
        /\ Line_contains_point(call.result, call.b) = PyBool(TRUE)

\* The line through (0, 0) and (1, 1) is -x + y = 0.
C20_Witness ==
    /\ call.op = "from_points"
    /\ call.a = Point__init__(0, 0)
    /\ call.b = Point__init__(1, 1)
    /\ call.result = Line__init__(-1, 1, 0)

\* The squared distance between two points
SquaredDistance(p, q) ==
    LET dx == FSub(p.x, q.x)
        dy == FSub(p.y, q.y)
    IN  FAdd(FMul(dx, dx), FMul(dy, dy))

\* C21: for a line l with (A, B) # (0, 0) and a point p, q = l.project_point(p)
\* lies on l, p - q is a multiple of the normal (A, B), and the distance from
\* q to p is l.shortest_distance_to_point(p): its square times A^2 + B^2 is
\* (A*px + B*py + C)^2.
C21_ProjectionIsNearest ==
    (call.op = "project_point" /\ IsPoint(call.b) /\ ~IsDegenerate(call.a)) =>
        LET l == call.a
            p == call.b
            q == call.result
            value == LineValue(l, p)
        IN  /\ IsPoint(q)
            /\ LineValue(l, q) = float(0)
            /\ FSub(FMul(FSub(p.x, q.x), l.B), FMul(FSub(p.y, q.y), l.A)) = float(0)
            /\ FMul(SquaredDistance(q, p), FAdd(FMul(l.A, l.A), FMul(l.B, l.B)))
                   = FMul(value, value)
            /\ HasRationalHypot(l.A, l.B) =>
                   Point_distance_to(q, p) = Line_shortest_distance_to_point(l, p)

\* The point (2, 3) is projected on 3x + 4y - 12 = 0, from which it is 1.2 away.
C21_Witness ==
    /\ call.op = "project_point"
    /\ call.a = Line__init__(3, 4, -12)
    /\ call.b = Point__init__(2, 3)
    /\ IsPoint(call.result)
    /\ Point_distance_to(call.result, call.b) = Float(Q(6, 5))

\* C22: for every line l and point p, l.parallel_through(p) contains p and
\* is parallel to l, and l.perpendicular_through(p) contains p and is
\* perpendicular to l.
C22_LinesThroughPoint ==
    /\ (call.op = "parallel_through" /\ IsPoint(call.b)) =>
           /\ IsLine(call.result)
           /\ Line_contains_point(call.result, call.b) = PyBool(TRUE)
           /\ Line_is_parallel(call.result, call.a) = PyBool(TRUE)
    /\ (call.op = "perpendicular_through" /\ IsPoint(call.b)) =>
           /\ IsLine(call.result)
           /\ Line_contains_point(call.result, call.b) = PyBool(TRUE)
           /\ Line_is_perpendicular(call.result, call.a) = PyBool(TRUE)

\* The perpendicular to x + 2y = 0 through (1, 1) is 2x - y - 1 = 0.
C22_Witness ==
    /\ call.op = "perpendicular_through"
    /\ call.a = Line__init__(1, 2, 0)
    /\ call.b = Point__init__(1, 1)
    /\ call.result = Line__init__(2, -1, -1)

\* The nonzero scalars a normal is multiplied by
Scalars == Coords \ {0}

\* other has the normal of self multiplied by a nonzero scalar
IsScaledNormal(self, other) ==
    \E k \in Scalars :
        /\ other.A = FMul(float(k), self.A)
        /\ other.B = FMul(float(k), self.B)

\* C23: is_parallel is true of a line and every line whose normal is a nonzero
\* multiple of its normal, whatever its C, vertical lines included, and is
\* symmetric; is_perpendicular is symmetric, and true exactly when
\* A1*A2 + B1*B2 is zero within the tolerance 1e-9.
C23_ParallelAndPerpendicular ==
    /\ (call.op = "is_parallel" /\ IsLine(call.b)) =>
           /\ IsScaledNormal(call.a, call.b) => call.result = PyBool(TRUE)
           /\ call.result = Line_is_parallel(call.b, call.a)
    /\ (call.op = "is_perpendicular" /\ IsLine(call.b)) =>
           LET d == FAdd(FMul(call.a.A, call.b.A), FMul(call.a.B, call.b.B))
           IN  /\ call.result = PyBool(LeTol(FAbs(d), PerpendicularTolExp))
               /\ call.result = Line_is_perpendicular(call.b, call.a)

\* The vertical lines x = 1 and -2x = 2 are parallel.
C23_Witness ==
    /\ call.op = "is_parallel"
    /\ call.a = Line__init__(1, 0, -1)
    /\ call.b = Line__init__(-2, 0, -2)
    /\ call.result = PyBool(TRUE)

\* The operations of Point that take another Point as call.b
PointPointOps ==
    {"Point.__eq__", "Point.__add__", "Point.__sub__", "distance_to", "dot", "cross",
     "angle_between", "midpoint"}

\* The operations of Line that take a Point, and those that take a Line
LinePointOps ==
    {"contains_point", "shortest_distance_to_point", "project_point",
     "parallel_through", "perpendicular_through"}

LineLineOps == {"is_parallel", "is_perpendicular", "intersection_with"}

\* The call was given an argument of the wrong kind where a Point or a Line
\* is expected (origin=None is the default of rotate).
HasWrongKind ==
    \/ call.op \in PointPointOps \cup LinePointOps /\ ~IsPoint(call.b)
    \/ call.op = "rotate" /\ call.c # None /\ ~IsPoint(call.c)
    \/ call.op \in LineLineOps /\ ~IsLine(call.b)
    \/ call.op = "from_points" /\ (~IsPoint(call.a) \/ ~IsPoint(call.b))

\* The failures by which an argument of the wrong kind is rejected
IsTypeMismatch(v) == v.kind \in {"TypeError", "ValueError", "AttributeError"}

\* C24: every operation of Point that takes another geometric value (+, -, ==,
\* distance_to, dot, cross, angle_between, midpoint, the origin of rotate) and
\* every operation of Line that takes a Point or a Line fails with a type
\* mismatch when the argument is of the wrong kind; none returns a result.
C24_WrongKindRejected == HasWrongKind => IsTypeMismatch(call.result)

\* C25: normalize fails with a domain error exactly when the magnitude of the
\* point is 0, which is the point (0, 0); for every other point it returns a
\* point of magnitude 1 in the same direction: its cross product with the
\* original is 0 and its dot product with it is positive.
C25_Normalize ==
    call.op = "normalize" =>
        LET p == call.a
            u == call.result
        IN  IF p.x.n = 0 /\ p.y.n = 0
            THEN u = ValueError("Cannot normalize zero-length vector")
            ELSE /\ IsPoint(u)
                 /\ FAdd(FMul(u.x, u.x), FMul(u.y, u.y)) = float(1)
                 /\ Point_cross(u, p) = Float(float(0))
                 /\ Point_dot(u, p).v.n > 0

\* (3, 4) is normalized to (0.6, 0.8).
C25_Witness ==
    /\ call.op = "normalize"
    /\ call.a = Point__init__(3, 4)
    /\ call.result = Point(Q(3, 5), Q(4, 5))

\* C30: for all lines l1 and l2, l1.intersection_with(l2) returns None exactly
\* when l1.is_parallel(l2) is true.
C30_ParallelTestsAgree ==
    /\ (call.op = "intersection_with" /\ IsLine(call.b)) =>
           (call.result = None <=> Line_is_parallel(call.a, call.b) = PyBool(TRUE))
    /\ (call.op = "is_parallel" /\ IsLine(call.b)) =>
           (call.result = PyBool(TRUE) <=> Line_intersection_with(call.a, call.b) = None)

(***************************************************************************)
(* Objects and their identity: which objects an operation reads, which it *)
(* writes and which it creates.                                            *)
(***************************************************************************)

\* The largest number of objects the caller creates
MaxObjects == 3

\* A reference to the object heap[i]
Ref(i) == [kind |-> "ref", id |-> i]

IsObject(v) == v.kind \in {"Fraction", "Point", "Line"}

\* `return Point(...)`, `return Line(...)`, `return FractionDataType(...)`: the
\* constructor creates an object and __init__ fills in its fields; a float, a
\* bool, None or an exception is no object of these classes.
Return(h, v) ==
    IF IsObject(v) THEN <<Append(h, v), Ref(Len(h) + 1)>> ELSE <<h, v>>

\* A faulty variant of Invoke: the receiver itself is handed back instead of
\* the object the method built.
Invoke_ReturnsSelf(h, op, self, other, v) ==
    IF IsObject(v) THEN <<h, Ref(self)>> ELSE <<h, v>>

\* The method op of the object self, called with the object other (0: no
\* argument), computes v from their fields: no method assigns to a field of
\* self or of other.
Invoke(h, op, self, other, v) == Return(h, v)

\* The methods called on the objects, by the class of the receiver; those of
\* the first set take no argument.
UnaryMethods ==
    [Point |-> {"copy", "Point.__neg__"},
     Line |-> {"unit_normal"},
     Fraction |-> {"__neg__", "__pos__", "simplify"}]

BinaryMethods ==
    [Point |-> {"Point.__add__", "Point.__eq__", "midpoint"},
     Line |-> {"parallel_through", "intersection_with", "contains_point"},
     Fraction |-> {"__add__", "__mul__", "__eq__"}]

\* What the method op computes from the fields of self and other
Method(op, self, other) ==
    CASE op = "copy" -> Point_copy(self)
      [] op = "Point.__neg__" -> Point__neg__(self)
      [] op = "Point.__add__" -> Dispatch(Point__add__(self, other))
      [] op = "Point.__eq__" -> Point__eq__(self, other)
      [] op = "midpoint" -> Point_midpoint(self, other)
      [] op = "unit_normal" -> Line_unit_normal(self)
      [] op = "parallel_through" -> Line_parallel_through(self, other)
      [] op = "intersection_with" -> Line_intersection_with(self, other)
      [] op = "contains_point" -> Line_contains_point(self, other)
      [] op = "__neg__" -> Fraction__neg__(self)
      [] op = "__pos__" -> Fraction__pos__(self)
      [] op = "simplify" -> simplify(self)
      [] op = "__add__" -> PyAdd(self, other)
      [] op = "__mul__" -> PyMul(self, other)
      [] op = "__eq__" -> PyEq(self, other)

\* The objects the caller constructs
ObjectArgs ==
    {Point__init__(3, 4), Line__init__(1, 0, -5), FractionDataType(PyInt(1), PyInt(2))}

\* p = Point(3, 4), and the like
New ==
    /\ call = NoCall
    /\ \E v \in ObjectArgs :
           LET out == Return(heap, v)
           IN  /\ Len(out[1]) <= MaxObjects
               /\ heap' = out[1]
               /\ call' = [op |-> "__init__", a |-> None, b |-> None, c |-> None,
                           result |-> out[2]]
    /\ UNCHANGED f

CallUnary ==
    /\ call = NoCall
    /\ \E self \in DOMAIN heap :
       \E op \in UnaryMethods[heap[self].kind] :
           LET out == Invoke(heap, op, self, 0, Method(op, heap[self], None))
           IN  /\ Len(out[1]) <= MaxObjects
               /\ heap' = out[1]
               /\ call' = [op |-> op, a |-> Ref(self), b |-> None, c |-> None,
                           result |-> out[2]]
    /\ UNCHANGED f

CallBinary ==
    /\ call = NoCall
    /\ \E self \in DOMAIN heap, other \in DOMAIN heap :
       \E op \in BinaryMethods[heap[self].kind] :
           LET out == Invoke(heap, op, self, other, Method(op, heap[self], heap[other]))
           IN  /\ Len(out[1]) <= MaxObjects
               /\ heap' = out[1]
               /\ call' = [op |-> op, a |-> Ref(self), b |-> Ref(other), c |-> None,
                           result |-> out[2]]
    /\ UNCHANGED f

\* p.x = 10: the caller assigns to a coordinate of a Point it holds.
SetAttr ==
    /\ call = NoCall
    /\ \E p \in DOMAIN heap :
           /\ IsPoint(heap[p])
           /\ heap' = [heap EXCEPT ![p].x = float(10)]
           /\ call' = [op |-> "setattr", a |-> Ref(p), b |-> float(10), c |-> None,
                       result |-> None]
    /\ UNCHANGED f

NextHeap ==
    \/ New
    \/ CallUnary
    \/ CallBinary
    \/ SetAttr
    \/ Bind

SpecHeap == Init /\ [][NextHeap]_vars

\* The call just made was a call of a method or of a constructor
IsReference(v) == v.kind = "ref"

=============================================================================
